---------------------------- MODULE Spec2Model ----------------------------
(***************************************************************************)
(* A model of load_and_clean_data (src/src/preprocessing.py), the data     *)
(* cleaning pipeline of the COVID-19 dashboard.                            *)
(*                                                                         *)
(* A CSV source is a header (the column names, in file order) and a        *)
(* sequence of records of fields.  A field is text, a number or missing    *)
(* (an empty field, which pandas reads as NaN).  A DataFrame is its        *)
(* columns, the dtype of each column, its index labels and its rows; the   *)
(* cells of a row are parallel to the columns.  Every statement of the     *)
(* function is one action; an exception ends the call (Spec).              *)
(*                                                                         *)
(* The dashboard (src/src/gui.py) with the chart routines it calls         *)
(* (src/src/visualization.py, src/src/eda.py) is a second state machine    *)
(* (GuiSpec): every handler is one action, and preprocess_data runs the    *)
(* whole of load_and_clean_data on the file the user chose.                *)
(*                                                                         *)
(* The script (src/src/main.py) is a third one (ChartSpec): the file is    *)
(* loaded and cleaned, then chart routines are called on the table, and    *)
(* what each one plots or prints is recorded.                              *)
(***************************************************************************)
EXTENDS Integers, Sequences, FiniteSets, TLC

VARIABLES
    src,      \* the content of the CSV file at csv_path
    pc,       \* position in StatementOrder of the next statement to run
    df,       \* the local variable df of load_and_clean_data
    raised,   \* the exception that ended the call, or "none"
    result,   \* what the call handed back to its caller (NoFrame: nothing)
    file_path,    \* CovidDashboard.file_path, or NoAttribute while unset
    self_df,      \* CovidDashboard.df (NoFrame stands for None)
    returned_df,  \* the table as load_and_clean_data handed it to self.df
    items,        \* the entries of country_dropdown, top to bottom
    current,      \* position in items of the selected entry
    continents,   \* the continent checkboxes that are checked
    years,        \* the year-range checkboxes that are checked
    page,         \* the page the stacked layout shows
    event,        \* what the last handler did: dialog, plot call, exception
    app           \* "running", or "aborted" by an exception left unhandled

call_vars == <<src, pc, df, raised, result>>

gui_vars == <<file_path, self_df, returned_df, items, current, continents,
              years, page, event, app>>

vars == <<src, pc, df, raised, result, file_path, self_df, returned_df, items,
          current, continents, years, page, event, app>>

-----------------------------------------------------------------------------
(* Cells *)

NA == [na |-> TRUE]
Num(n) == [num |-> n]
Txt(s) == [txt |-> s]
Date(d) == [date |-> d]

IsNA(c) == "na" \in DOMAIN c
IsNum(c) == "num" \in DOMAIN c
IsTxt(c) == "txt" \in DOMAIN c

-----------------------------------------------------------------------------
(* Bounds and the sources drawn                                            *)
(*                                                                         *)
(* A source is given by its fields as pd.read_csv tokenises them: a        *)
(* number, a text, or a missing field (empty, or one of pandas' NA         *)
(* tokens).  Three families of sources are drawn, each with at most        *)
(* MaxRows records: every set of columns with default fields               *)
(* (SchemaSource), every iso_code, date and continent field                *)
(* (TextSource), and every iso_code and metric field (MetricSource).       *)

MaxRows == 2

\* The header order of a source; a source holds any of these columns, in
\* this order.
HeaderOrder ==
    << "iso_code", "continent", "date", "total_cases", "tests_units",
       "total_deaths", "active_cases", "excess_mortality_cumulative",
       "total_recovered", "excess_mortality",
       "excess_mortality_cumulative_absolute",
       "excess_mortality_cumulative_per_million" >>

AllColumns == {HeaderOrder[i] : i \in DOMAIN HeaderOrder}

RequiredColumns == {"iso_code", "date", "total_cases", "total_deaths"}

\* The fields a column of a source may hold.
FieldDomain(c) ==
    CASE c = "iso_code"       -> {Txt("USA"), Txt("OWID_WRL"), NA}
      [] c = "continent"      -> {Txt("Asia"), NA}
      [] c = "date"           -> {Txt("2021-03-01"), Txt("not-a-date"), NA}
      [] c = "total_cases"    -> {Num(50), NA}
      [] c = "total_deaths"   -> {Num(2), NA}
      [] c = "total_recovered" -> {Num(1), NA}
      [] c = "active_cases"   -> {Num(7), NA}
      [] c = "tests_units"    -> {Txt("tests performed")}
      [] OTHER                -> {Num(3)}

FieldDefault(c) ==
    CASE c = "iso_code"       -> Txt("USA")
      [] c = "continent"      -> Txt("Asia")
      [] c = "date"           -> Txt("2021-03-01")
      [] c = "total_cases"    -> Num(50)
      [] c = "total_deaths"   -> Num(2)
      [] c = "total_recovered" -> Num(1)
      [] c = "active_cases"   -> Num(7)
      [] c = "tests_units"    -> Txt("tests performed")
      [] OTHER                -> Num(3)

HeaderOf(colset) == SelectSeq(HeaderOrder, LAMBDA c : c \in colset)

RECURSIVE RecordsFor(_, _)
RecordsFor(header, varying) ==
    IF header = << >> THEN { << >> }
    ELSE LET c == Head(header)
             dom == IF c \in varying THEN FieldDomain(c) ELSE {FieldDefault(c)}
         IN  { <<v>> \o r : v \in dom, r \in RecordsFor(Tail(header), varying) }

\* The sources with the columns colset, at most MaxRows records, in which the
\* columns of varying take every field of their domain and the others their
\* default.
SourcesOver(colset, varying) ==
    LET header == HeaderOf(colset)
        recs == RecordsFor(header, varying)
    IN  { [exists |-> TRUE, header |-> header, records |-> rs] :
            rs \in UNION { [1..n -> recs] : n \in 0..MaxRows } }

\* Every set of columns (a file that parses has at least one), with default
\* fields.
SchemaSource(csv) ==
    \E S \in (SUBSET AllColumns) \ {{}} : csv \in SourcesOver(S, {})

\* A path that cannot be opened, and a file without any content.
NoSuchFile == [exists |-> FALSE, header |-> << >>, records |-> << >>]
EmptyFile == [exists |-> TRUE, header |-> << >>, records |-> << >>]

\* The required columns and continent, with every iso_code, date and
\* continent field.
TextSource(csv) ==
    \E O \in SUBSET {"active_cases"} :
        csv \in SourcesOver(RequiredColumns \cup {"continent"} \cup O,
                            {"iso_code", "date", "continent"})

\* The required columns with or without total_recovered and active_cases,
\* with every iso_code and metric field.
MetricSource(csv) ==
    \E O \in SUBSET {"total_recovered", "active_cases"} :
        csv \in SourcesOver(RequiredColumns \cup O,
                            {"iso_code", "total_cases", "total_deaths",
                             "total_recovered", "active_cases"})

-----------------------------------------------------------------------------
(* DataFrames *)

NoFrame == [columns |-> << >>, dtypes |-> << >>, index |-> << >>, rows |-> << >>]

ColSet(t) == {t.columns[i] : i \in DOMAIN t.columns}

ColIndex(t, c) == CHOOSE i \in DOMAIN t.columns : t.columns[i] = c

Cell(t, i, c) == t.rows[i][ColIndex(t, c)]

DtypeOf(t, c) == t.dtypes[ColIndex(t, c)]

Ok(t) == [error |-> "none", df |-> t]
\* (mutant) the exception is swallowed and the call goes on with what it has.
RaiseSwallowed(e, t) == [error |-> "none", df |-> t]

Raise(e, t) == [error |-> e, df |-> t]

\* The positions a boolean mask holds TRUE at, ascending.
Positions(mask) == SelectSeq([i \in DOMAIN mask |-> i], LAMBDA i : mask[i])

\* (mutant) the rows kept, less those equal to an earlier row kept, as
\* drop_duplicates() would leave them.
TakeRowsDropDuplicates(t, kept) ==
    LET First(k) == \A h \in 1..(k - 1) : t.rows[kept[h]] # t.rows[kept[k]]
        uniq == SelectSeq([k \in DOMAIN kept |-> k], First)
    IN  [t EXCEPT !.index = [k \in DOMAIN uniq |-> t.index[kept[uniq[k]]]],
                  !.rows = [k \in DOMAIN uniq |-> t.rows[kept[uniq[k]]]]]

\* t[mask]: the rows at the positions kept, with their index labels.
TakeRows(t, kept) ==
    [t EXCEPT !.index = [k \in DOMAIN kept |-> t.index[kept[k]]],
              !.rows = [k \in DOMAIN kept |-> t.rows[kept[k]]]]

\* The columns at the positions kept.
TakeColumns(t, kept) ==
    [t EXCEPT !.columns = [k \in DOMAIN kept |-> t.columns[kept[k]]],
              !.dtypes = [k \in DOMAIN kept |-> t.dtypes[kept[k]]],
              !.rows = [i \in DOMAIN t.rows |->
                          [k \in DOMAIN kept |-> t.rows[i][kept[k]]]]]

-----------------------------------------------------------------------------
(* pd.read_csv: a RangeIndex from 0, and a dtype inferred for each column  *)
(* from all of its fields: int64 when all are numbers, float64 when all    *)
(* are numbers or missing (an entirely empty column too), object           *)
(* otherwise; a source without records yields object columns.              *)

InferDtype(cells) ==
    IF Len(cells) = 0 THEN "object"
    ELSE IF \A i \in DOMAIN cells : IsNum(cells[i]) THEN "int64"
    ELSE IF \A i \in DOMAIN cells : IsNum(cells[i]) \/ IsNA(cells[i]) THEN "float64"
    ELSE "object"

read_csv(csv) ==
    IF ~csv.exists THEN Raise("FileNotFoundError", NoFrame)
    ELSE IF csv.header = << >> THEN Raise("EmptyDataError", NoFrame)
    ELSE
    Ok([columns |-> csv.header,
        dtypes |-> [k \in DOMAIN csv.header |->
                      InferDtype([i \in DOMAIN csv.records |-> csv.records[i][k]])],
        index |-> [i \in DOMAIN csv.records |-> i - 1],
        rows |-> csv.records])

-----------------------------------------------------------------------------
(* df['date'] = pd.to_datetime(df['date']) *)

Parseable(s) ==
    s \in {"2020-12-31", "2021-01-01", "2021-03-01", "2021-03-02",
           "2021-12-31", "2022-01-01"}

ParseDate(s) == CASE s = "2020-12-31" -> 20201231
                  [] s = "2021-01-01" -> 20210101
                  [] s = "2021-03-01" -> 20210301
                  [] s = "2021-03-02" -> 20210302
                  [] s = "2021-12-31" -> 20211231
                  [] s = "2022-01-01" -> 20220101

\* (mutant) only a string gives a date; a Timestamp already parsed is lost.
ToDatetimeCellTextOnly(c) == IF IsTxt(c) THEN Date(ParseDate(c.txt)) ELSE NA

\* A string is parsed; a Timestamp stays as it is and a missing value is NaT.
ToDatetimeCell(c) == IF IsTxt(c) THEN Date(ParseDate(c.txt)) ELSE c

to_datetime(t) ==
    IF "date" \notin ColSet(t) THEN Raise("KeyError", t)
    ELSE IF \E i \in DOMAIN t.rows :
                IsTxt(Cell(t, i, "date")) /\ ~Parseable(Cell(t, i, "date").txt)
         THEN Raise("ValueError", t)
    ELSE LET k == ColIndex(t, "date")
         IN  Ok([t EXCEPT !.dtypes[k] = "datetime64[ns]",
                          !.rows = [i \in DOMAIN t.rows |->
                                      [t.rows[i] EXCEPT ![k] = ToDatetimeCell(@)]]])

-----------------------------------------------------------------------------
(* df = df[df['iso_code'].str.len() == 3] *)

\* (mutant) codes of three characters or more.
IsCountryCodeAtLeast3(c) == IsTxt(c) /\ Len(c.txt) >= 3

IsCountryCode(c) == IsTxt(c) /\ Len(c.txt) = 3

filter_countries(t) ==
    IF "iso_code" \notin ColSet(t) THEN Raise("KeyError", t)
    ELSE IF DtypeOf(t, "iso_code") # "object" THEN Raise("AttributeError", t)
    ELSE LET mask == [i \in DOMAIN t.rows |-> IsCountryCode(Cell(t, i, "iso_code"))]
         IN  Ok(TakeRows(t, Positions(mask)))

-----------------------------------------------------------------------------
(* df.drop(columns=[col for col in cols_to_drop if col in df.columns],     *)
(*         inplace=True)                                                   *)

cols_to_drop ==
    << "tests_units", "excess_mortality_cumulative", "excess_mortality",
       "excess_mortality_cumulative_absolute",
       "excess_mortality_cumulative_per_million" >>

\* (mutant) every name of cols_to_drop, in the frame or not.
DropListUnguarded(t) == cols_to_drop

DropList(t) == SelectSeq(cols_to_drop, LAMBDA c : c \in ColSet(t))

drop_columns(t) ==
    LET labels == DropList(t)
        gone == {labels[i] : i \in DOMAIN labels}
    IN  IF ~(gone \subseteq ColSet(t)) THEN Raise("KeyError", t)
        ELSE LET mask == [k \in DOMAIN t.columns |-> t.columns[k] \notin gone]
             IN  Ok(TakeColumns(t, Positions(mask)))

-----------------------------------------------------------------------------
(* num_cols = df.select_dtypes(include=['float64', 'int64']).columns       *)
(* df[num_cols] = df[num_cols].fillna(0)                                   *)

\* (mutant) every column is filled, whatever its dtype.
IsNumericDtypeAny(d) == TRUE

IsNumericDtype(d) == d \in {"float64", "int64"}

\* (mutant) ffill().fillna(0): the last value above in the column, else 0.
RECURSIVE LastValidAbove(_, _, _)
LastValidAbove(t, i, k) ==
    IF i = 0 THEN Num(0)
    ELSE IF ~IsNA(t.rows[i][k]) THEN t.rows[i][k]
    ELSE LastValidAbove(t, i - 1, k)

FillCellForward(t, i, k) == LastValidAbove(t, i, k)

FillCell(t, i, k) ==
    IF IsNA(t.rows[i][k]) THEN Num(0) ELSE t.rows[i][k]

fillna(t) ==
    Ok([t EXCEPT !.rows = [i \in DOMAIN t.rows |->
                             [k \in DOMAIN t.columns |->
                                IF IsNumericDtype(t.dtypes[k])
                                THEN FillCell(t, i, k)
                                ELSE t.rows[i][k]]]])

-----------------------------------------------------------------------------
(* if 'active_cases' not in df.columns:                                    *)
(*     df['active_cases'] = df['total_cases'] - df['total_deaths']         *)
(*                          - df.get('total_recovered', 0)                 *)

\* Subtraction of cells: a missing operand gives a missing difference.
Sub(a, b) == IF IsNum(a) /\ IsNum(b) THEN Num(a.num - b.num) ELSE NA

\* df.get('total_recovered', 0): the column, or the scalar 0 for every row.
Recovered(t, i) ==
    IF "total_recovered" \in ColSet(t) THEN Cell(t, i, "total_recovered") ELSE Num(0)

\* (mutant) a running total of the rows' differences down to row i.
RECURSIVE ActiveCasesRunningTotal(_, _)
ActiveCasesRunningTotal(t, i) ==
    LET here == Sub(Sub(Cell(t, i, "total_cases"), Cell(t, i, "total_deaths")),
                    Recovered(t, i))
    IN  IF i = 1 THEN here
        ELSE LET above == ActiveCasesRunningTotal(t, i - 1)
             IN  IF IsNum(above) /\ IsNum(here)
                 THEN Num(above.num + here.num) ELSE NA

ActiveCases(t, i) ==
    Sub(Sub(Cell(t, i, "total_cases"), Cell(t, i, "total_deaths")), Recovered(t, i))

\* (mutant) the column is derived whether or not the source has it.
NeedsDerivationAlways(t) == TRUE

\* if 'active_cases' not in df.columns
NeedsDerivation(t) == "active_cases" \notin ColSet(t)

\* The dtype of a computed column.
ResultDtype(col) ==
    IF Len(col) = 0 THEN "object"
    ELSE IF \A i \in DOMAIN col : IsNum(col[i]) THEN "int64" ELSE "float64"

\* df[c] = col: the column is replaced where it stands, or appended.
SetColumn(t, c, col) ==
    IF c \in ColSet(t)
    THEN LET k == ColIndex(t, c)
         IN  [t EXCEPT !.dtypes[k] = ResultDtype(col),
                       !.rows = [i \in DOMAIN t.rows |->
                                   [t.rows[i] EXCEPT ![k] = col[i]]]]
    ELSE [t EXCEPT !.columns = Append(@, c),
                   !.dtypes = Append(@, ResultDtype(col)),
                   !.rows = [i \in DOMAIN t.rows |-> Append(t.rows[i], col[i])]]

derive_active_cases(t) ==
    IF ~NeedsDerivation(t) THEN Ok(t)
    ELSE IF ~({"total_cases", "total_deaths"} \subseteq ColSet(t))
         THEN Raise("KeyError", t)
    ELSE Ok(SetColumn(t, "active_cases",
                      [i \in DOMAIN t.rows |-> ActiveCases(t, i)]))

-----------------------------------------------------------------------------
(* The statements of load_and_clean_data, in the order the function runs   *)
(* them.                                                                   *)

\* (mutant) active_cases derived before the missing values are filled.
StatementOrderDeriveFirst ==
    << "read_csv", "to_datetime", "filter", "drop", "derive", "fillna" >>

\* (mutant) the country filter applied before the dates are parsed.
StatementOrderFilterFirst ==
    << "read_csv", "filter", "to_datetime", "drop", "fillna", "derive" >>

StatementOrder ==
    << "read_csv", "to_datetime", "filter", "drop", "fillna", "derive" >>

Exec(s, csv, t) ==
    CASE s = "read_csv"    -> read_csv(csv)
      [] s = "to_datetime" -> to_datetime(t)
      [] s = "filter"      -> filter_countries(t)
      [] s = "drop"        -> drop_columns(t)
      [] s = "fillna"      -> fillna(t)
      [] s = "derive"      -> derive_active_cases(t)

RECURSIVE RunFrom(_, _, _)
RunFrom(k, csv, o) ==
    IF k > Len(StatementOrder) \/ o.error # "none" THEN o
    ELSE RunFrom(k + 1, csv, Exec(StatementOrder[k], csv, o.df))

\* The whole call: the frame returned, or the exception raised.
load_and_clean_data(csv) == RunFrom(1, csv, Ok(NoFrame))

-----------------------------------------------------------------------------
(* The state machine *)

\* CovidDashboard.__init__: no table, no file_path attribute, the dropdown
\* holding its placeholder, no box checked, the welcome page on top.
NoAttribute == "<no attribute>"
Placeholder == "Select a country..."
NoDialog == [icon |-> "none", text |-> "", numbers |-> << >>]
NoPlot == [fn |-> "none", args |-> << >>, error |-> "none", used |-> << >>,
           data |-> << >>, printed |-> ""]
NoEvent == [handler |-> "none", input |-> "", dialog |-> NoDialog,
            plot |-> NoPlot, raised |-> "none"]

Constructed ==
    /\ file_path = NoAttribute
    /\ self_df = NoFrame
    /\ returned_df = NoFrame
    /\ items = <<Placeholder>>
    /\ current = 1
    /\ continents = {}
    /\ years = {}
    /\ page = "welcome_screen"
    /\ event = NoEvent
    /\ app = "running"

Init ==
    /\ Constructed
    /\ \/ SchemaSource(src)
       \/ TextSource(src)
       \/ MetricSource(src)
       \/ src \in {NoSuchFile, EmptyFile}
    /\ pc = 1
    /\ df = NoFrame
    /\ raised = "none"
    /\ result = NoFrame

\* The statement s is the next to run.
At(s) ==
    /\ raised = "none"
    /\ pc \in DOMAIN StatementOrder
    /\ StatementOrder[pc] = s

\* The statement ran with outcome o: df is rebound and control moves on, or
\* the exception leaves the function.
Outcome(o) ==
    /\ df' = o.df
    /\ raised' = o.error
    /\ pc' = IF o.error = "none" THEN pc + 1 ELSE pc
    /\ UNCHANGED <<src, result>>
    /\ UNCHANGED gui_vars

ReadCsv ==
    /\ At("read_csv")
    /\ Outcome(Exec("read_csv", src, df))

ToDatetime ==
    /\ At("to_datetime")
    /\ Outcome(Exec("to_datetime", src, df))

FilterCountries ==
    /\ At("filter")
    /\ Outcome(Exec("filter", src, df))

DropColumns ==
    /\ At("drop")
    /\ Outcome(Exec("drop", src, df))

FillNa ==
    /\ At("fillna")
    /\ Outcome(Exec("fillna", src, df))

DeriveActiveCases ==
    /\ At("derive")
    /\ Outcome(Exec("derive", src, df))

\* return df
Return ==
    /\ raised = "none"
    /\ pc = Len(StatementOrder) + 1
    /\ result' = df
    /\ pc' = pc + 1
    /\ UNCHANGED <<src, df, raised>>
    /\ UNCHANGED gui_vars

Next ==
    \/ ReadCsv
    \/ ToDatetime
    \/ FilterCountries
    \/ DropColumns
    \/ FillNa
    \/ DeriveActiveCases
    \/ Return

Spec == Init /\ [][Next]_vars

Returned == raised = "none" /\ pc = Len(StatementOrder) + 2
Failed == raised # "none"

-----------------------------------------------------------------------------
(* Reading a finished call against its source *)

SrcCol(c) == CHOOSE k \in DOMAIN src.header : src.header[k] = c
SrcColumns == {src.header[k] : k \in DOMAIN src.header}

\* The field of column c in record j of the source.
SrcCell(j, c) == src.records[j][SrcCol(c)]

\* The cell of column c in row k of the frame returned.
ResCell(k, c) == Cell(result, k, c)

\* The record of the source that row k of the frame returned carries the
\* index label of.
SrcRowOf(k) == result.index[k] + 1

ThreeChars(c) == IsTxt(c) /\ Len(c.txt) = 3

DroppedNames ==
    {"tests_units", "excess_mortality_cumulative", "excess_mortality",
     "excess_mortality_cumulative_absolute",
     "excess_mortality_cumulative_per_million"}

\* The records of the source whose iso_code has three characters, in order.
CountryRecords ==
    SelectSeq([j \in DOMAIN src.records |-> j],
              LAMBDA j : ThreeChars(SrcCell(j, "iso_code")))

-----------------------------------------------------------------------------
\* C1: every row of the frame returned has an iso_code of exactly three
\* characters, and no record of the source whose iso_code has another length
\* (or is missing) is among its rows.
C1_CountryFilter ==
    Returned =>
        /\ "iso_code" \in ColSet(result)
        /\ \A k \in DOMAIN result.rows : ThreeChars(ResCell(k, "iso_code"))
        /\ \A j \in DOMAIN src.records :
              ~ThreeChars(SrcCell(j, "iso_code")) =>
                  \A k \in DOMAIN result.index : result.index[k] # j - 1

C1_Witness ==
    /\ Returned
    /\ Len(result.rows) >= 1
    /\ \E j \in DOMAIN src.records : SrcCell(j, "iso_code") = Txt("OWID_WRL")

\* C2: the rows of the frame returned are exactly the records of the source
\* with a three-character iso_code, each once and in source order.
C2_NoCountryRowLost ==
    Returned =>
        /\ Len(result.rows) = Len(CountryRecords)
        /\ result.index = [k \in DOMAIN CountryRecords |-> CountryRecords[k] - 1]
        /\ \A k \in DOMAIN result.rows :
              /\ ResCell(k, "iso_code") = SrcCell(CountryRecords[k], "iso_code")
              /\ \A c \in SrcColumns \ DroppedNames :
                    IsNum(SrcCell(CountryRecords[k], c)) =>
                        ResCell(k, c) = SrcCell(CountryRecords[k], c)

C2_Witness ==
    /\ Returned
    /\ Len(src.records) >= 2
    /\ Len(result.rows) = Len(src.records)
    /\ result.rows[1] # result.rows[2]

C4_DerivedFormula ==
    (Returned /\ "active_cases" \notin SrcColumns) =>
        /\ "active_cases" \in ColSet(result)
        /\ \A k \in DOMAIN result.rows :
              LET a == ResCell(k, "active_cases")
                  tc == ResCell(k, "total_cases")
                  td == ResCell(k, "total_deaths")
                  tr == IF "total_recovered" \in SrcColumns
                        THEN ResCell(k, "total_recovered") ELSE Num(0)
              IN  /\ IsNum(a) /\ IsNum(tc) /\ IsNum(td) /\ IsNum(tr)
                  /\ a.num = tc.num - td.num - tr.num

C4_Witness ==
    /\ Returned
    /\ "active_cases" \notin SrcColumns
    /\ "total_recovered" \in SrcColumns
    /\ Len(result.rows) >= 2
    /\ \A k \in DOMAIN result.rows : ResCell(k, "active_cases") = Num(47)

\* C5: when the source has an active_cases column, every number in it is
\* returned as it is and every missing field of it as 0, whatever
\* total_cases and total_deaths hold; the column is not derived again.
C5_NoRecompute ==
    (Returned /\ "active_cases" \in SrcColumns) =>
        /\ Cardinality({i \in DOMAIN result.columns :
                          result.columns[i] = "active_cases"}) = 1
        /\ \A k \in DOMAIN result.rows :
              LET s == SrcCell(SrcRowOf(k), "active_cases")
              IN  /\ IsNum(s) => ResCell(k, "active_cases") = s
                  /\ IsNA(s) => ResCell(k, "active_cases") = Num(0)

C5_Witness ==
    /\ Returned
    /\ "active_cases" \in SrcColumns
    /\ \E k, h \in DOMAIN result.rows :
          /\ IsNA(SrcCell(SrcRowOf(k), "active_cases"))
          /\ ResCell(k, "active_cases") = Num(0)
          /\ ResCell(k, "total_cases") = Num(50)
          /\ ResCell(h, "active_cases") = Num(7)
          /\ ResCell(h, "total_cases") = Num(50)

\* A missing field counted as 0.
Zero(c) == IF IsNum(c) THEN c.num ELSE 0

\* C6 as stated: where active_cases was derived and the total_deaths field
\* of the source was missing, the row returned has total_deaths = 0 and
\* active_cases = total_cases.
C6_AsStated ==
    (Returned /\ "active_cases" \notin SrcColumns) =>
        \A k \in DOMAIN result.rows :
            IsNA(SrcCell(SrcRowOf(k), "total_deaths")) =>
                /\ ResCell(k, "total_deaths") = Num(0)
                /\ ResCell(k, "active_cases") = ResCell(k, "total_cases")

\* C6 (amended): where active_cases was derived, it is never missing and
\* equals the source's total_cases - total_deaths - total_recovered with
\* every missing field (and an absent total_recovered column) counted as 0;
\* a row whose total_deaths was missing has total_deaths = 0, and has
\* active_cases = total_cases when it has no recovered count.
C6_FillBeforeDerive ==
    (Returned /\ "active_cases" \notin SrcColumns) =>
        \A k \in DOMAIN result.rows :
            LET j == SrcRowOf(k)
                rec == IF "total_recovered" \in SrcColumns
                       THEN Zero(SrcCell(j, "total_recovered")) ELSE 0
            IN  /\ ResCell(k, "active_cases") =
                      Num(Zero(SrcCell(j, "total_cases"))
                          - Zero(SrcCell(j, "total_deaths")) - rec)
                /\ IsNA(SrcCell(j, "total_deaths")) =>
                      /\ ResCell(k, "total_deaths") = Num(0)
                      /\ rec = 0 =>
                            ResCell(k, "active_cases") = ResCell(k, "total_cases")

C6_Witness ==
    /\ Returned
    /\ "active_cases" \notin SrcColumns
    /\ "total_recovered" \in SrcColumns
    /\ \E k, h \in DOMAIN result.rows :
          /\ IsNA(SrcCell(SrcRowOf(k), "total_deaths"))
          /\ IsNA(SrcCell(SrcRowOf(k), "total_recovered"))
          /\ ResCell(k, "active_cases") = Num(50)
          /\ IsNA(SrcCell(SrcRowOf(h), "total_deaths"))
          /\ ResCell(h, "active_cases") = Num(49)

\* The source csv without its column c.
WithoutColumn(csv, c) ==
    LET kept == SelectSeq([k \in DOMAIN csv.header |-> k],
                          LAMBDA k : csv.header[k] # c)
    IN  [exists |-> csv.exists,
         header |-> [k \in DOMAIN kept |-> csv.header[kept[k]]],
         records |-> [j \in DOMAIN csv.records |->
                        [k \in DOMAIN kept |-> csv.records[j][kept[k]]]]]

\* The source csv with the column c added at its place in the header.
WithColumn(csv, c) ==
    LET old == {csv.header[k] : k \in DOMAIN csv.header}
        header == HeaderOf(old \cup {c})
        At0(h) == CHOOSE k \in DOMAIN csv.header : csv.header[k] = h
    IN  [exists |-> csv.exists,
         header |-> header,
         records |-> [j \in DOMAIN csv.records |->
                        [k \in DOMAIN header |->
                           IF header[k] = c THEN FieldDefault(c)
                           ELSE csv.records[j][At0(header[k])]]]]

\* C7: whichever of the five named columns the source holds, the drop raises
\* nothing, none of the five is in the frame returned, and the source with
\* one of them removed (or added) is cleaned to the same columns.
C7_DropColumns ==
    /\ raised # "none" => StatementOrder[pc] # "drop"
    /\ Returned =>
          /\ ColSet(result) \cap DroppedNames = {}
          /\ \A c \in DroppedNames :
                LET other == IF c \in SrcColumns THEN WithoutColumn(src, c)
                             ELSE WithColumn(src, c)
                    o == load_and_clean_data(other)
                IN  o.error = "none" /\ o.df.columns = result.columns

C7_Witness ==
    /\ Returned
    /\ Len(result.rows) >= 1
    /\ "excess_mortality" \in SrcColumns
    /\ "tests_units" \notin SrcColumns
    /\ "excess_mortality_cumulative" \notin SrcColumns

BadDate(c) == IsTxt(c) /\ c.txt = "not-a-date"

HasBadDate ==
    /\ "date" \in SrcColumns
    /\ \E j \in DOMAIN src.records : BadDate(SrcCell(j, "date"))

\* C9: a source with an unparseable date in any record never gets past the
\* date parsing: nothing is returned, the only exception is the parse
\* error, and the call does end with it.
C9_BadDateAborts ==
    HasBadDate =>
        /\ result = NoFrame
        /\ pc <= 2
        /\ raised \in {"none", "ValueError"}
        /\ ~(ENABLED Next) => raised = "ValueError"

C9_Witness ==
    /\ HasBadDate
    /\ raised = "ValueError"
    /\ \E j \in DOMAIN src.records : ThreeChars(SrcCell(j, "iso_code"))
    /\ \A j \in DOMAIN src.records :
          BadDate(SrcCell(j, "date")) => SrcCell(j, "iso_code") = Txt("OWID_WRL")

\* C10 as stated: a source (here one with records) that lacks one of
\* iso_code, date, total_cases, total_deaths never returns a frame; the call
\* ends with the KeyError of the absent column.
C10_SchemaError ==
    ( /\ src.records # << >>
      /\ ~({"iso_code", "date", "total_cases", "total_deaths"} \subseteq SrcColumns) )
    =>
        /\ result = NoFrame
        /\ pc <= Len(StatementOrder)
        /\ raised \in {"none", "KeyError"}
        /\ ~(ENABLED Next) => raised = "KeyError"



(***************************************************************************)
(* Failure and re-application of the cleaning.                             *)
(***************************************************************************)

\* The table carries the marks of all five cleaning steps.
FullyCleaned(t) ==
    /\ {"date", "iso_code", "active_cases"} \subseteq ColSet(t)
    /\ DtypeOf(t, "date") = "datetime64[ns]"
    /\ \A i \in DOMAIN t.rows : ThreeChars(Cell(t, i, "iso_code"))
    /\ ColSet(t) \cap DroppedNames = {}
    /\ \A k \in DOMAIN t.columns :
          IsNumericDtype(t.dtypes[k]) =>
              \A i \in DOMAIN t.rows : ~IsNA(t.rows[i][k])

\* C11: every failure ends the call: a path that cannot be opened fails at
\* once with the file-not-found error, nothing runs after an exception, a
\* failed call returns nothing, and a call that ends has either returned a
\* table that went through all five steps or raised.
C11_FailureIsFatal ==
    /\ ~src.exists => /\ pc = 1
                       /\ df = NoFrame
                       /\ raised \in {"none", "FileNotFoundError"}
    /\ Failed => /\ result = NoFrame
                 /\ ~ENABLED Next
    /\ result # NoFrame => /\ Returned
                           /\ result = df
                           /\ FullyCleaned(result)
    /\ ~ENABLED Next => Returned \/ Failed

C11_Witness ==
    /\ ~src.exists
    /\ raised = "FileNotFoundError"
    /\ result = NoFrame
    /\ ~ENABLED Next

\* The statements after the read, applied to a table already in memory.
Reclean(t) == RunFrom(2, src, Ok(t))

\* C12: the cleaning applied to a table it returned raises nothing and gives
\* back the same columns, the same rows in the same order and the same cell
\* values.
C12_Idempotent ==
    Returned => Reclean(result) = Ok(result)

C12_Witness ==
    /\ Returned
    /\ "active_cases" \notin SrcColumns
    /\ Len(result.rows) >= 1
    /\ Len(src.records) > Len(result.rows)
    /\ \E i \in DOMAIN result.rows : "date" \in DOMAIN Cell(result, i, "date")
    /\ \E i \in DOMAIN result.rows : \E c \in SrcColumns \ {"iso_code", "date"} :
          /\ c \in ColSet(result)
          /\ IsNA(SrcCell(SrcRowOf(i), c))
          /\ ~IsNA(ResCell(i, c))

-----------------------------------------------------------------------------
(***************************************************************************)
(* The dashboard (gui.py).  The files the user can pick in the file        *)
(* dialog: the dataset main.py names, a second dataset, a file without a   *)
(* location column, a file with an unreadable date, and a file that is     *)
(* removed after it was picked.                                            *)
(***************************************************************************)

DashboardHeader ==
    <<"iso_code", "continent", "location", "date", "total_cases",
      "total_deaths", "new_cases", "new_deaths", "new_vaccinations",
      "stringency_index", "people_vaccinated", "people_fully_vaccinated",
      "people_fully_vaccinated_per_hundred", "tests_units">>

\* One record of a dataset; the nine metrics are given in header order.
Record(iso, continent, location, date, metrics) ==
    <<iso, continent, location, date>> \o metrics \o <<Txt("tests performed")>>

OwidCovidData ==
    [exists |-> TRUE, header |-> DashboardHeader, records |-> <<
        Record(Txt("IND"), Txt("Asia"), Txt("India"), Txt("2021-03-02"),
               <<Num(30), Num(3), Num(5), Num(1), Num(4),
                 Num(60), Num(10), Num(5), Num(2)>>),
        Record(Txt("CAN"), Txt("North America"), Txt("Canada"), Txt("2021-03-02"),
               <<Num(20), Num(2), Num(8), NA, Num(6),
                 Num(70), Num(12), Num(6), Num(3)>>),
        Record(Txt("OWID_WRL"), NA, Txt("World"), Txt("2021-03-02"),
               <<Num(50), Num(5), Num(13), Num(1), Num(10),
                 NA, Num(22), Num(11), Num(2)>>),
        Record(Txt("CAN"), Txt("North America"), Txt("Canada"), Txt("2021-03-01"),
               <<Num(12), NA, Num(12), NA, NA,
                 Num(70), Num(6), NA, NA>>),
        Record(Txt("ATA"), NA, NA, Txt("2021-03-01"),
               <<NA, NA, NA, NA, NA, NA, NA, NA, NA>>) >>]

OtherData ==
    [exists |-> TRUE, header |-> DashboardHeader, records |-> <<
        Record(Txt("OWID_EUR"), NA, Txt("Europe"), Txt("2021-03-01"),
               <<Num(40), Num(4), Num(9), Num(2), Num(7),
                 NA, Num(20), Num(9), Num(1)>>),
        Record(Txt("BRA"), Txt("South America"), Txt("Brazil"), Txt("2021-03-01"),
               <<Num(25), Num(6), Num(7), Num(2), NA,
                 Num(40), Num(8), Num(3), Num(1)>>) >>]

NoLocationData ==
    [exists |-> TRUE,
     header |-> <<"iso_code", "date", "total_cases", "total_deaths">>,
     records |-> << <<Txt("USA"), Txt("2021-03-01"), Num(50), Num(2)>> >>]

BadDateData ==
    [exists |-> TRUE, header |-> DashboardHeader, records |-> <<
        Record(Txt("IND"), Txt("Asia"), Txt("India"), Txt("not-a-date"),
               <<Num(30), Num(3), Num(5), Num(1), Num(4),
                 Num(60), Num(10), Num(5), Num(2)>>) >>]

FileNames ==
    {"owid-covid-data.csv", "other.csv", "no_location.csv", "bad_date.csv",
     "removed.csv"}

\* What pd.read_csv finds at the path when preprocess_data runs.
FileAt(path) ==
    CASE path = "owid-covid-data.csv" -> OwidCovidData
      [] path = "other.csv" -> OtherData
      [] path = "no_location.csv" -> NoLocationData
      [] path = "bad_date.csv" -> BadDateData
      [] OTHER -> NoSuchFile

-----------------------------------------------------------------------------
(***************************************************************************)
(* The chart routines (visualization.py, eda.py).  Each takes the caller's *)
(* table and gives back: the exception it raised if any, the caller's      *)
(* table as the call left it, and the index labels of the rows of that     *)
(* table the drawn figure is computed from.                                *)
(***************************************************************************)

ChartOk(shared, part) ==
    [error |-> "none", shared |-> shared, used |-> part.index,
     data |-> << >>, printed |-> ""]
ChartRaise(e, shared) ==
    [error |-> e, shared |-> shared, used |-> << >>, data |-> << >>, printed |-> ""]

\* The routine returned after drawing the records of data, one per mark of the
\* figure, computed from the rows of part.
ChartDrawn(shared, part, data) ==
    [error |-> "none", shared |-> shared, used |-> part.index,
     data |-> data, printed |-> ""]

Has(t, cols) == cols \subseteq ColSet(t)
Positive(c) == IsNum(c) /\ c.num > 0
IsDate(c) == "date" \in DOMAIN c

\* df[mask] for a mask given row by row.
Where(t, mask) == TakeRows(t, Positions(mask))

\* The rows groupby('date') puts in a group: those whose date is not NaT.
DatedRows(t) == Where(t, [i \in DOMAIN t.rows |-> IsDate(Cell(t, i, "date"))])

\* max() of the date column, skipping NaT; NA when there is no date.
MaxDate(t) ==
    LET ds == {Cell(t, i, "date").date : i \in {j \in DOMAIN t.rows : IsDate(Cell(t, j, "date"))}}
    IN  IF ds = {} THEN NA ELSE Date(CHOOSE d \in ds : \A e \in ds : e <= d)

(* visualization.py: plot_global_spread_over_time *)
plot_global_spread_over_time(t) ==
    IF ~Has(t, {"iso_code", "location", "date", "total_cases"})
    THEN ChartRaise("KeyError", t)
    ELSE ChartOk(t, Where(t, [i \in DOMAIN t.rows |->
                                Positive(Cell(t, i, "total_cases"))]))

\* sort_values('date'): ascending, NaT last, equal dates in their old order.
DateKey(c) == IF IsDate(c) THEN c.date ELSE 99999999

SortedPlace(t, i) ==
    1 + Cardinality({j \in DOMAIN t.rows :
            \/ DateKey(Cell(t, j, "date")) < DateKey(Cell(t, i, "date"))
            \/ /\ DateKey(Cell(t, j, "date")) = DateKey(Cell(t, i, "date"))
               /\ j < i})

sort_values(t) ==
    TakeRows(t, [k \in DOMAIN t.rows |->
                   CHOOSE i \in DOMAIN t.rows : SortedPlace(t, i) = k])

\* rolling(7).mean(): missing until seven numbers in a row are in the window.
Window == 7

RECURSIVE SumOf(_, _, _)
SumOf(col, from, to) ==
    IF from > to THEN 0 ELSE col[from].num + SumOf(col, from + 1, to)

RollingMean(col) ==
    [i \in DOMAIN col |->
        IF i < Window \/ \E j \in (i - Window + 1)..i : ~IsNum(col[j])
        THEN NA
        ELSE [mean |-> <<SumOf(col, i - Window + 1, i), Window>>]]

ColumnOf(t, c) == [i \in DOMAIN t.rows |-> Cell(t, i, c)]

AddColumn(t, c, col) ==
    [t EXCEPT !.columns = Append(@, c),
              !.dtypes = Append(@, "float64"),
              !.rows = [i \in DOMAIN t.rows |-> Append(t.rows[i], col[i])]]

\* (mutant) the statements of lines 38-44 write to the caller's table.
TrendsFrameShared == "df"

\* The table lines 38-44 of visualization.py write to: the copy of line 37.
TrendsFrame == "country_df"

(* visualization.py: plot_country_trends *)
plot_country_trends(t, country_name) ==
    IF ~Has(t, {"location"}) THEN ChartRaise("KeyError", t)
    ELSE
    LET country_df == Where(t, [i \in DOMAIN t.rows |->
                                  Cell(t, i, "location") = Txt(country_name)])
        target == IF TrendsFrame = "df" THEN t ELSE country_df
        dated == to_datetime(target)
        sorted == sort_values(dated.df)
        averaged ==
            AddColumn(AddColumn(AddColumn(sorted,
                "new_cases_ma", RollingMean(ColumnOf(sorted, "new_cases"))),
                "new_deaths_ma", RollingMean(ColumnOf(sorted, "new_deaths"))),
                "new_vaccinations_ma",
                RollingMean(ColumnOf(sorted, "new_vaccinations")))
        written(x) == IF TrendsFrame = "df" THEN x ELSE t
    IN  IF dated.error # "none" THEN ChartRaise(dated.error, t)
        ELSE IF ~Has(sorted, {"new_cases", "new_deaths", "new_vaccinations"})
        THEN ChartRaise("KeyError", written(sorted))
        ELSE [error |-> "none", shared |-> written(averaged),
              used |-> country_df.index, data |-> << >>, printed |-> ""]

(* visualization.py: plot_global_cases_deaths *)
plot_global_cases_deaths(t) ==
    IF ~Has(t, {"date", "total_cases", "total_deaths"})
    THEN ChartRaise("KeyError", t)
    ELSE ChartOk(t, DatedRows(t))

\* year_filters: the first day of the range and the first day after it.
YearLabels == <<"2020-2021", "2021-2022", "2022-2023", "2023-2024">>

year_filters(label) ==
    CASE label = "2020-2021" -> <<20200101, 20210101>>
      [] label = "2021-2022" -> <<20210101, 20220101>>
      [] label = "2022-2023" -> <<20220101, 20230101>>
      [] label = "2023-2024" -> <<20230101, 20240101>>

\* (mutant) the last day of the range is the first day of the next one.
InYearRangeClosed(c, label) ==
    /\ IsDate(c)
    /\ c.date >= year_filters(label)[1]
    /\ c.date <= year_filters(label)[2]

\* (df['date'] >= start) & (df['date'] < end)
InYearRange(c, label) ==
    /\ IsDate(c)
    /\ c.date >= year_filters(label)[1]
    /\ c.date < year_filters(label)[2]

\* The concatenation, label after label, of the rows dated in each range.
RECURSIVE YearPositions(_, _)
YearPositions(t, labels) ==
    IF labels = << >> THEN << >>
    ELSE Positions([i \in DOMAIN t.rows |->
                      InYearRange(Cell(t, i, "date"), Head(labels))])
         \o YearPositions(t, Tail(labels))

InList(x, list) == \E k \in DOMAIN list : list[k] = x

\* The location names of the files, as Python's sorted() and the keys of a
\* groupby order strings.
NameOrder ==
    <<"Argentina", "Brazil", "Canada", "Chile", "Egypt", "Europe", "France",
      "Ghana", "India", "Japan", "Kenya", "Mexico", "Peru", "World">>

\* sorted() of a list of strings: each once, in ascending order.
Sorted(texts) == SelectSeq(NameOrder, LAMBDA n : InList(Txt(n), texts))

\* The rows of t, in order, whose cell in column c is the key.
GroupOf(t, c, key) ==
    Positions([i \in DOMAIN t.rows |-> Cell(t, i, c) = key])

\* (mutant) the first value of the group that is not missing.
GroupFirst(t, group, c) ==
    LET valid == SelectSeq(group, LAMBDA i : ~IsNA(Cell(t, i, c)))
    IN  IF valid = << >> THEN NA ELSE Cell(t, valid[1], c)

\* groupby(...).last(): the last value of the group that is not missing.
GroupLast(t, group, c) ==
    LET valid == SelectSeq(group, LAMBDA i : ~IsNA(Cell(t, i, c)))
    IN  IF valid = << >> THEN NA ELSE Cell(t, valid[Len(valid)], c)

\* .sort_values('date').groupby('location').last().reset_index(): one record
\* per location, the locations in ascending order.
LatestPerLocation(t) ==
    LET sorted == sort_values(t)
        names == Sorted(ColumnOf(sorted, "location"))
    IN  [k \in DOMAIN names |->
            LET group == GroupOf(sorted, "location", Txt(names[k]))
            IN  [location |-> names[k],
                 iso_code |-> GroupLast(sorted, group, "iso_code"),
                 total_cases |-> GroupLast(sorted, group, "total_cases"),
                 total_deaths |-> GroupLast(sorted, group, "total_deaths")]]

(* visualization.py: plot_choropleth_maps_by_continent *)
plot_choropleth_maps_by_continent(t, selected_continents, selected_year_ranges) ==
    IF \E k \in DOMAIN selected_year_ranges :
           ~InList(selected_year_ranges[k], YearLabels)
    THEN ChartRaise("KeyError", t)
    ELSE IF selected_year_ranges # << >> /\ ~Has(t, {"date"})
    THEN ChartRaise("KeyError", t)
    ELSE
    LET filtered == IF selected_year_ranges = << >> THEN NoFrame
                    ELSE TakeRows(t, YearPositions(t, selected_year_ranges))
        selected == Where(filtered, [i \in DOMAIN filtered.rows |->
                 /\ IsTxt(Cell(filtered, i, "continent"))
                 /\ InList(Cell(filtered, i, "continent").txt, selected_continents)
                 /\ ~IsNA(Cell(filtered, i, "iso_code"))
                 /\ ~IsNA(Cell(filtered, i, "total_cases"))
                 /\ ~IsNA(Cell(filtered, i, "total_deaths"))
                 /\ ~IsNA(Cell(filtered, i, "location"))])
    IN  IF filtered.rows = << >>
        THEN [ChartOk(t, NoFrame) EXCEPT !.printed = "No data for selected year range(s)."]
        ELSE IF ~Has(t, {"continent", "iso_code", "total_cases",
                         "total_deaths", "location"})
        THEN ChartRaise("KeyError", t)
        ELSE ChartDrawn(t, selected, LatestPerLocation(selected))

\* The keys of groupby('continent') in sorted order: numbers first (the column holds
\* numbers only when it was read as float64 and filled), then the texts; a
\* missing key makes no group.
SortedNumbers(S) ==
    [k \in 1..Cardinality(S) |-> CHOOSE x \in S : Cardinality({y \in S : y < x}) = k - 1]

ContinentKeys(t) ==
    LET col == ColumnOf(t, "continent")
        nums == {col[i].num : i \in {j \in DOMAIN col : IsNum(col[j])}}
        sorted == SortedNumbers(nums)
        names == <<"Africa", "Asia", "Europe", "North America", "Oceania",
                   "South America">>
    IN  [k \in DOMAIN sorted |-> Num(sorted[k])]
        \o SelectSeq([k \in DOMAIN names |-> Txt(names[k])],
                     LAMBDA key : InList(key, col))

\* sum() of a group: the numbers of the column added up, missing ones skipped.
NumbersOf(t, group, c) ==
    LET valid == SelectSeq(group, LAMBDA i : IsNum(Cell(t, i, c)))
    IN  [k \in DOMAIN valid |-> Cell(t, valid[k], c)]

GroupSum(t, group, c) ==
    LET col == NumbersOf(t, group, c) IN Num(SumOf(col, 1, Len(col)))

\* (mutant) the latest date of the whole table, valid or not.
LatestDateOfAll(t, valid_rows) == MaxDate(t)

\* visualization.py line 144: valid_rows['date'].max().
LatestValidDate(t, valid_rows) == MaxDate(valid_rows)

(* visualization.py: plot_continent_cases_deaths *)
plot_continent_cases_deaths(t) ==
    IF ~Has(t, {"continent"}) THEN ChartRaise("KeyError", t)
    ELSE IF ~Has(t, {"total_cases", "total_deaths"}) THEN ChartRaise("KeyError", t)
    ELSE IF ~Has(t, {"date"}) THEN ChartRaise("KeyError", t)
    ELSE
    LET with_continent == Where(t, [i \in DOMAIN t.rows |->
                                      ~IsNA(Cell(t, i, "continent"))])
        valid_rows == Where(with_continent, [i \in DOMAIN with_continent.rows |->
                          \/ Positive(Cell(with_continent, i, "total_cases"))
                          \/ Positive(Cell(with_continent, i, "total_deaths"))])
        latest_valid_date == LatestValidDate(with_continent, valid_rows)
        latest_df == Where(valid_rows, [i \in DOMAIN valid_rows.rows |->
                        /\ IsDate(latest_valid_date)
                        /\ Cell(valid_rows, i, "date") = latest_valid_date])
        keys == ContinentKeys(latest_df)
    IN  ChartDrawn(t, latest_df,
            [k \in DOMAIN keys |->
                LET group == GroupOf(latest_df, "continent", keys[k])
                IN  [continent |-> keys[k],
                     total_cases |-> GroupSum(latest_df, group, "total_cases"),
                     total_deaths |-> GroupSum(latest_df, group, "total_deaths")]])

(* visualization.py: plot_lockdowns_vs_cases *)
plot_lockdowns_vs_cases(t) ==
    IF ~Has(t, {"date", "new_cases", "stringency_index"})
    THEN ChartRaise("KeyError", t)
    ELSE ChartOk(t, DatedRows(t))

\* sum(min_count=1) of a group: missing when the group has no number at all.
GroupSumMinCount(t, group, c) ==
    IF NumbersOf(t, group, c) = << >> THEN NA ELSE GroupSum(t, group, c)

\* The keys of groupby('date') in sorted order; NaT makes no group.
DateKeys(t) ==
    LET col == ColumnOf(t, "date")
        sorted == SortedNumbers({col[i].date : i \in {j \in DOMAIN col : IsDate(col[j])}})
    IN  [k \in DOMAIN sorted |-> Date(sorted[k])]

\* visualization.py line 202: dropna() drops a row with any missing value.
DropNa(series) ==
    SelectSeq(series, LAMBDA r : \A f \in DOMAIN r : ~IsNA(r[f]))

(* visualization.py: plot_global_vaccination_progress *)
plot_global_vaccination_progress(t) ==
    IF ~Has(t, {"date", "people_vaccinated", "people_fully_vaccinated"})
    THEN ChartRaise("KeyError", t)
    ELSE LET keys == DateKeys(t)
             vax_df == [k \in DOMAIN keys |->
                 LET group == GroupOf(t, "date", keys[k])
                 IN  [date |-> keys[k],
                      people_vaccinated |-> GroupSumMinCount(t, group, "people_vaccinated"),
                      people_fully_vaccinated |->
                          GroupSumMinCount(t, group, "people_fully_vaccinated")]]
         IN  ChartDrawn(t, DatedRows(t), DropNa(vax_df))

(* visualization.py: plot_current_global_snapshot *)
plot_current_global_snapshot(t) ==
    IF ~Has(t, {"date"}) THEN ChartRaise("KeyError", t)
    ELSE IF ~Has(t, {"iso_code", "active_cases",
                     "people_fully_vaccinated_per_hundred"})
    THEN ChartRaise("KeyError", t)
    ELSE IF ~Has(t, {"location"}) THEN ChartRaise("ValueError", t)
    ELSE
    LET latest_date == MaxDate(t)
    IN  ChartOk(t, Where(t, [i \in DOMAIN t.rows |->
                   /\ IsDate(latest_date)
                   /\ Cell(t, i, "date") = latest_date
                   /\ ~IsNA(Cell(t, i, "iso_code"))
                   /\ ~IsNA(Cell(t, i, "active_cases"))
                   /\ ~IsNA(Cell(t, i, "people_fully_vaccinated_per_hundred"))]))

\* eda.py lines 14 and 31, gui.py line 993: df[df['iso_code'].str.len() == 3].
CodeLengthThree(t) ==
    Where(t, [i \in DOMAIN t.rows |->
                /\ IsTxt(Cell(t, i, "iso_code"))
                /\ Len(Cell(t, i, "iso_code").txt) = 3])

\* max() of a group: the greatest number of the column, missing ones skipped;
\* missing when the group has no number.
GroupMax(t, group, c) ==
    LET col == NumbersOf(t, group, c)
    IN  IF col = << >> THEN NA
        ELSE CHOOSE v \in {col[k] : k \in DOMAIN col} :
                 \A k \in DOMAIN col : col[k].num <= v.num

\* (mutant) ascending order: a smaller value sorts first.
SortsBeforeAscending(a, b) == IsNum(a) /\ (IsNA(b) \/ a.num < b.num)

\* sort_values(ascending=False): a greater value sorts first, a missing one last.
SortsBefore(a, b) == IsNum(a) /\ (IsNA(b) \/ a.num > b.num)

\* The order sort_values leaves equal values in is not specified by its default
\* algorithm: either the order of the groups or its reverse.
TieOrders == {"kept", "reversed"}

SortDescending(series, ties) ==
    LET Place(k) ==
            1 + Cardinality({j \in DOMAIN series :
                    \/ SortsBefore(series[j].value, series[k].value)
                    \/ /\ ~SortsBefore(series[k].value, series[j].value)
                       /\ IF ties = "kept" \/ IsNA(series[k].value) THEN j < k ELSE j > k})
    IN  [n \in DOMAIN series |-> series[CHOOSE k \in DOMAIN series : Place(k) = n]]

\* eda.py lines 18 and 35: head(10).
TopN == 10

\* The rows groupby('location') puts in a group after the filter on the code
\* are those with a location; the series is each location's max, sorted
\* descending and cut to its head.
TopTenRows(t, metric, ties) ==
    IF ~Has(t, {"iso_code"}) THEN ChartRaise("KeyError", t)
    ELSE IF DtypeOf(t, "iso_code") # "object" THEN ChartRaise("AttributeError", t)
    ELSE IF ~Has(t, {"location"}) THEN ChartRaise("KeyError", t)
    ELSE IF ~Has(t, {metric}) THEN ChartRaise("KeyError", t)
    ELSE LET coded == CodeLengthThree(t)
             names == Sorted(ColumnOf(coded, "location"))
             series == [k \in DOMAIN names |->
                          [location |-> names[k],
                           value |-> GroupMax(coded, GroupOf(coded, "location", Txt(names[k])),
                                              metric)]]
         IN  ChartDrawn(t, Where(coded, [i \in DOMAIN coded.rows |->
                                           ~IsNA(Cell(coded, i, "location"))]),
                        LET sorted == SortDescending(series, ties)
                        IN  SubSeq(sorted, 1, IF Len(sorted) < TopN THEN Len(sorted)
                                              ELSE TopN))

(* eda.py: plot_top10_total_cases *)
plot_top10_total_cases(t, ties) == TopTenRows(t, "total_cases", ties)

(* eda.py: plot_top10_total_deaths *)
plot_top10_total_deaths(t, ties) == TopTenRows(t, "total_deaths", ties)

(* eda.py: plot_correlation_heatmap *)
plot_correlation_heatmap(t) == ChartOk(t, t)

-----------------------------------------------------------------------------
(***************************************************************************)
(* The handlers of CovidDashboard (gui.py).  A button is pressed on the    *)
(* page that carries it; the sidebar is at hand on every page.  An         *)
(* exception that leaves a handler is caught by nothing in gui.py: PyQt    *)
(* prints it and, depending on its version, goes on or aborts the          *)
(* application.                                                            *)
(***************************************************************************)

\* The most boxes checked at a time, continents and year ranges together.
MaxChecked == 3

Pages ==
    {"load_dataset_page", "preprocess_page", "eda_page", "global_spread_page",
     "country_page", "cases_deaths_page", "continent_impact_page",
     "lockdown_page", "vaccination_page", "snapshot_page"}

ContinentBoxes ==
    <<"Africa", "Asia", "Europe", "North America", "South America", "Oceania">>

YearBoxes == <<"2020-2021", "2021-2022", "2022-2023", "2023-2024">>

Information(text, numbers) == [icon |-> "information", text |-> text, numbers |-> numbers]
Warning(text) == [icon |-> "warning", text |-> text, numbers |-> << >>]

\* The handler returned after showing the dialog (or nothing at all).
Handled(handler, input, dialog) ==
    /\ event' = [handler |-> handler, input |-> input, dialog |-> dialog,
                 plot |-> NoPlot, raised |-> "none"]
    /\ app' = app

\* The exception left the handler.
Unhandled(handler, plot, e) ==
    /\ event' = [handler |-> handler, input |-> "", dialog |-> NoDialog,
                 plot |-> plot, raised |-> e]
    /\ app' \in {"running", "aborted"}

\* The user changed a widget; no handler of gui.py is connected to it.
UserInput ==
    /\ event' = NoEvent
    /\ app' = app

(* show_load_page ... show_snapshot_page, show_choropleth_page excepted *)
show_page ==
    /\ app = "running"
    /\ \E p \in Pages :
          /\ page' = p
          /\ Handled("show_page", p, NoDialog)
    /\ UNCHANGED <<file_path, self_df, returned_df, items, current,
                   continents, years>>
    /\ UNCHANGED call_vars

\* (mutant) the handler does not look at self.df.
HasDataUnchecked == TRUE

\* self.df is not None
HasData == self_df # NoFrame

show_choropleth_page ==
    /\ app = "running"
    /\ IF HasData
       THEN /\ page' = "choropleth_page"
            /\ Handled("show_choropleth_page", "", NoDialog)
       ELSE /\ page' = page
            /\ Handled("show_choropleth_page", "",
                       Warning("Preprocess the data first."))
    /\ UNCHANGED <<file_path, self_df, returned_df, items, current,
                   continents, years>>
    /\ UNCHANGED call_vars

\* (mutant) the path the dialog gave is stored whatever it is.
FileChosenAlways(chosen) == TRUE

\* if file_path:
FileChosen(chosen) == chosen # ""

load_csv ==
    /\ app = "running"
    /\ page = "load_dataset_page"
    /\ \E chosen \in FileNames \cup {""} :
          IF FileChosen(chosen)
          THEN /\ file_path' = chosen
               /\ Handled("load_csv", chosen, Information("CSV Loaded", << >>))
          ELSE /\ file_path' = file_path
               /\ Handled("load_csv", chosen, NoDialog)
    /\ UNCHANGED <<self_df, returned_df, items, current, continents, years, page>>
    /\ UNCHANGED call_vars

\* .dropna().unique(): the values that are not missing, each once, in the
\* order of their first row.
Unique(col) ==
    SelectSeq([i \in DOMAIN col |-> i],
              LAMBDA i : /\ ~IsNA(col[i])
                         /\ \A j \in 1..(i - 1) : col[j] # col[i])

UniqueValues(col) == [k \in DOMAIN Unique(col) |-> col[Unique(col)[k]]]

\* (mutant) the entries of the dropdown stay when it is filled again.
ClearSkipped(old) == old

\* self.country_dropdown.clear()
Clear(old) == << >>

\* update_country_dropdown on table t with the dropdown holding old: the
\* exception if any, and the entries and the selection it leaves.  The first
\* entry added to an empty dropdown becomes the selected one.
update_country_dropdown(t, old, selected) ==
    LET cleared == Clear(old)
        first == Append(cleared, Placeholder)
        chosen == IF cleared = << >> THEN 1 ELSE selected
        countries == UniqueValues(ColumnOf(CodeLengthThree(t), "location"))
    IN  IF ~Has(t, {"iso_code"})
        THEN [error |-> "KeyError", items |-> first, current |-> chosen]
        ELSE IF DtypeOf(t, "iso_code") # "object"
        THEN [error |-> "AttributeError", items |-> first, current |-> chosen]
        ELSE IF ~Has(t, {"location"})
        THEN [error |-> "KeyError", items |-> first, current |-> chosen]
        ELSE IF \E k \in DOMAIN countries : ~IsTxt(countries[k])
        THEN [error |-> "TypeError", items |-> first, current |-> chosen]
        ELSE [error |-> "none", items |-> first \o Sorted(countries),
              current |-> chosen]

preprocess_data ==
    /\ app = "running"
    /\ page = "preprocess_page"
    /\ IF file_path # NoAttribute
       THEN LET loaded == load_and_clean_data(FileAt(file_path))
                filled == update_country_dropdown(loaded.df, items, current)
            IN  IF loaded.error # "none"
                THEN /\ Unhandled("preprocess_data", NoPlot, loaded.error)
                     /\ UNCHANGED <<self_df, returned_df, items, current>>
                ELSE /\ self_df' = loaded.df
                     /\ returned_df' = loaded.df
                     /\ items' = filled.items
                     /\ current' = filled.current
                     /\ IF filled.error # "none"
                        THEN Unhandled("preprocess_data", NoPlot, filled.error)
                        ELSE Handled("preprocess_data", "",
                                 Information("Data preprocessed successfully.", << >>))
       ELSE /\ Handled("preprocess_data", "", Warning("Please load a file first."))
            /\ UNCHANGED <<self_df, returned_df, items, current>>
    /\ UNCHANGED <<file_path, continents, years, page>>
    /\ UNCHANGED call_vars

view_preprocessed_data ==
    /\ app = "running"
    /\ page = "preprocess_page"
    /\ IF HasData
       THEN Handled("view_preprocessed_data", "",
                Information("Data has rows and columns.",
                            <<Len(self_df.rows), Len(self_df.columns)>>))
       ELSE Handled("view_preprocessed_data", "",
                Warning("No data found. Please preprocess first."))
    /\ UNCHANGED <<file_path, self_df, returned_df, items, current,
                   continents, years, page>>
    /\ UNCHANGED call_vars

\* The handler called the chart routine fn on self.df with outcome o: the
\* routine worked on the very table self.df names.
Draw(handler, fn, args, o) ==
    /\ self_df' = o.shared
    /\ IF o.error = "none"
       THEN /\ event' = [handler |-> handler, input |-> "", dialog |-> NoDialog,
                         plot |-> [fn |-> fn, args |-> args, error |-> "none",
                                   used |-> o.used, data |-> o.data,
                                   printed |-> o.printed],
                         raised |-> "none"]
            /\ app' = app
       ELSE Unhandled(handler,
                [fn |-> fn, args |-> args, error |-> o.error, used |-> << >>,
                 data |-> << >>, printed |-> ""],
                o.error)

\* The handler showed a warning instead.
Warn(handler, text) ==
    /\ self_df' = self_df
    /\ Handled(handler, "", Warning(text))

show_eda_top_cases ==
    /\ app = "running"
    /\ page = "eda_page"
    /\ IF HasData
       THEN \E ties \in TieOrders :
                Draw("show_eda_top_cases", "plot_top10_total_cases", << >>, plot_top10_total_cases(self_df, ties))
       ELSE Warn("show_eda_top_cases", "Please preprocess the dataset first.")
    /\ UNCHANGED <<file_path, returned_df, items, current, continents, years, page>>
    /\ UNCHANGED call_vars

show_eda_top_deaths ==
    /\ app = "running"
    /\ page = "eda_page"
    /\ IF HasData
       THEN \E ties \in TieOrders :
                Draw("show_eda_top_deaths", "plot_top10_total_deaths", << >>, plot_top10_total_deaths(self_df, ties))
       ELSE Warn("show_eda_top_deaths", "Please preprocess the dataset first.")
    /\ UNCHANGED <<file_path, returned_df, items, current, continents, years, page>>
    /\ UNCHANGED call_vars

show_eda_correlation ==
    /\ app = "running"
    /\ page = "eda_page"
    /\ IF HasData
       THEN Draw("show_eda_correlation", "plot_correlation_heatmap", << >>, plot_correlation_heatmap(self_df))
       ELSE Warn("show_eda_correlation", "Please preprocess the dataset first.")
    /\ UNCHANGED <<file_path, returned_df, items, current, continents, years, page>>
    /\ UNCHANGED call_vars

view_global_spread ==
    /\ app = "running"
    /\ page = "global_spread_page"
    /\ IF HasData
       THEN Draw("view_global_spread", "plot_global_spread_over_time", << >>, plot_global_spread_over_time(self_df))
       ELSE Warn("view_global_spread", "Please preprocess the dataset first.")
    /\ UNCHANGED <<file_path, returned_df, items, current, continents, years, page>>
    /\ UNCHANGED call_vars

view_cases_deaths ==
    /\ app = "running"
    /\ page = "cases_deaths_page"
    /\ IF HasData
       THEN Draw("view_cases_deaths", "plot_global_cases_deaths", << >>, plot_global_cases_deaths(self_df))
       ELSE Warn("view_cases_deaths", "Please preprocess the dataset first.")
    /\ UNCHANGED <<file_path, returned_df, items, current, continents, years, page>>
    /\ UNCHANGED call_vars

view_continent_impact ==
    /\ app = "running"
    /\ page = "continent_impact_page"
    /\ IF HasData
       THEN Draw("view_continent_impact", "plot_continent_cases_deaths", << >>, plot_continent_cases_deaths(self_df))
       ELSE Warn("view_continent_impact", "Please preprocess the dataset first.")
    /\ UNCHANGED <<file_path, returned_df, items, current, continents, years, page>>
    /\ UNCHANGED call_vars

view_lockdowns_vs_cases ==
    /\ app = "running"
    /\ page = "lockdown_page"
    /\ IF HasData
       THEN Draw("view_lockdowns_vs_cases", "plot_lockdowns_vs_cases", << >>, plot_lockdowns_vs_cases(self_df))
       ELSE Warn("view_lockdowns_vs_cases", "Please preprocess the dataset first.")
    /\ UNCHANGED <<file_path, returned_df, items, current, continents, years, page>>
    /\ UNCHANGED call_vars

view_vaccination_progress ==
    /\ app = "running"
    /\ page = "vaccination_page"
    /\ IF HasData
       THEN Draw("view_vaccination_progress", "plot_global_vaccination_progress", << >>, plot_global_vaccination_progress(self_df))
       ELSE Warn("view_vaccination_progress", "Please preprocess the dataset first.")
    /\ UNCHANGED <<file_path, returned_df, items, current, continents, years, page>>
    /\ UNCHANGED call_vars

view_snapshot ==
    /\ app = "running"
    /\ page = "snapshot_page"
    /\ IF HasData
       THEN Draw("view_snapshot", "plot_current_global_snapshot", << >>, plot_current_global_snapshot(self_df))
       ELSE Warn("view_snapshot", "Please preprocess the dataset first.")
    /\ UNCHANGED <<file_path, returned_df, items, current, continents, years, page>>
    /\ UNCHANGED call_vars

\* The user picks an entry of the country dropdown.
select_country ==
    /\ app = "running"
    /\ page = "country_page"
    /\ \E k \in DOMAIN items : current' = k
    /\ UserInput
    /\ UNCHANGED <<file_path, self_df, returned_df, items, continents, years, page>>
    /\ UNCHANGED call_vars

\* currentText() of the dropdown.
currentText == IF current \in DOMAIN items THEN items[current] ELSE ""

plot_country_selected ==
    /\ app = "running"
    /\ page = "country_page"
    /\ IF HasData /\ currentText # Placeholder
       THEN Draw("plot_country_selected", "plot_country_trends", <<currentText>>,
                 plot_country_trends(self_df, currentText))
       ELSE Warn("plot_country_selected", "Choose a country first.")
    /\ UNCHANGED <<file_path, returned_df, items, current, continents, years, page>>
    /\ UNCHANGED call_vars

\* The user checks or unchecks a continent box.
toggle_continent ==
    /\ app = "running"
    /\ page = "choropleth_page"
    /\ \E c \in {ContinentBoxes[k] : k \in DOMAIN ContinentBoxes} :
          /\ continents' = IF c \in continents THEN continents \ {c}
                            ELSE continents \cup {c}
          /\ Cardinality(continents') + Cardinality(years) <= MaxChecked
    /\ UserInput
    /\ UNCHANGED <<file_path, self_df, returned_df, items, current, years, page>>
    /\ UNCHANGED call_vars

\* The user checks or unchecks a year-range box.
toggle_year ==
    /\ app = "running"
    /\ page = "choropleth_page"
    /\ \E y \in {YearBoxes[k] : k \in DOMAIN YearBoxes} :
          /\ years' = IF y \in years THEN years \ {y} ELSE years \cup {y}
          /\ Cardinality(continents) + Cardinality(years') <= MaxChecked
    /\ UserInput
    /\ UNCHANGED <<file_path, self_df, returned_df, items, current, continents, page>>
    /\ UNCHANGED call_vars

\* [cb.text() for cb in boxes if cb.isChecked()]
CheckedTexts(boxes, checked) == SelectSeq(boxes, LAMBDA b : b \in checked)

\* (mutant) one of the two selections is enough.
SelectionMissingBoth(selected_continents, selected_years) ==
    selected_continents = << >> /\ selected_years = << >>

\* if not continents or not years:
SelectionMissing(selected_continents, selected_years) ==
    selected_continents = << >> \/ selected_years = << >>

plot_continent_choropleths ==
    /\ app = "running"
    /\ page = "choropleth_page"
    /\ LET selected_continents == CheckedTexts(ContinentBoxes, continents)
           selected_years == CheckedTexts(YearBoxes, years)
       IN  IF ~HasData
           THEN Warn("plot_continent_choropleths",
                     "Please load and preprocess the data.")
           ELSE IF SelectionMissing(selected_continents, selected_years)
           THEN Warn("plot_continent_choropleths",
                     "Select at least one continent and one year.")
           ELSE Draw("plot_continent_choropleths",
                     "plot_choropleth_maps_by_continent",
                     <<selected_continents, selected_years>>,
                     plot_choropleth_maps_by_continent(self_df,
                         selected_continents, selected_years))
    /\ UNCHANGED <<file_path, returned_df, items, current, continents, years, page>>
    /\ UNCHANGED call_vars

\* The dashboard after construction, open to any event.
GuiInit ==
    /\ Constructed
    /\ src = EmptyFile
    /\ pc = 1
    /\ df = NoFrame
    /\ raised = "none"
    /\ result = NoFrame

GuiNext ==
    \/ show_page
    \/ show_choropleth_page
    \/ load_csv
    \/ preprocess_data
    \/ view_preprocessed_data
    \/ show_eda_top_cases
    \/ show_eda_top_deaths
    \/ show_eda_correlation
    \/ view_global_spread
    \/ view_cases_deaths
    \/ view_continent_impact
    \/ view_lockdowns_vs_cases
    \/ view_vaccination_progress
    \/ view_snapshot
    \/ select_country
    \/ plot_country_selected
    \/ toggle_continent
    \/ toggle_year
    \/ plot_continent_choropleths

GuiSpec == GuiInit /\ [][GuiNext]_vars

-----------------------------------------------------------------------------
(***************************************************************************)
(* Properties of the dashboard and of the chart routines.                  *)
(***************************************************************************)

\* The handlers that call a chart routine.
ViewHandlers ==
    {"show_eda_top_cases", "show_eda_top_deaths", "show_eda_correlation",
     "view_global_spread", "view_cases_deaths", "view_continent_impact",
     "view_lockdowns_vs_cases", "view_vaccination_progress", "view_snapshot",
     "plot_country_selected", "plot_continent_choropleths"}

\* C14: whatever charts were drawn and however often the dropdown was
\* filled, the table self.df names has the columns, the rows, the order and
\* the cell values it had when load_and_clean_data returned it.
C14_TableNeverMutated ==
    self_df = returned_df

C14_Witness ==
    /\ event.handler = "plot_country_selected"
    /\ event.plot.fn = "plot_country_trends"
    /\ event.plot.args = <<"Canada">>
    /\ event.plot.used = <<1, 3>>
    /\ event.raised = "none"
    /\ self_df = returned_df

\* The row of self.df that carries the index label.
RowLabelled(label) == CHOOSE i \in DOMAIN self_df.index : self_df.index[i] = label

\* C15: every row a chart routine or the dropdown works from has a
\* three-character iso_code, and the filters on the code length in
\* plot_top10_total_cases, plot_top10_total_deaths and
\* update_country_dropdown remove no row of the cleaned table.
C15_CountryRowsEverywhere ==
    HasData =>
        /\ \A i \in DOMAIN self_df.rows : ThreeChars(Cell(self_df, i, "iso_code"))
        /\ CodeLengthThree(self_df) = self_df
        /\ \A k \in DOMAIN event.plot.used :
              /\ \E i \in DOMAIN self_df.index : self_df.index[i] = event.plot.used[k]
              /\ ThreeChars(Cell(self_df, RowLabelled(event.plot.used[k]), "iso_code"))
        /\ \A k \in 2..Len(items) :
              \E i \in DOMAIN self_df.rows :
                  /\ "location" \in ColSet(self_df)
                  /\ Cell(self_df, i, "location") = Txt(items[k])
                  /\ ThreeChars(Cell(self_df, i, "iso_code"))

C15_Witness ==
    /\ HasData
    /\ event.plot.fn = "plot_global_cases_deaths"
    /\ event.plot.used = <<0, 1, 3, 4>>
    /\ Len(FileAt(file_path).records) > Len(self_df.rows)
    /\ Len(items) = 3

\* preprocess_data is about to call load_and_clean_data on a file it fails on.
LoadWillFail ==
    /\ file_path # NoAttribute
    /\ load_and_clean_data(FileAt(file_path)).error # "none"

\* C16: when load_and_clean_data fails inside preprocess_data, the user is
\* shown the error in a dialog, and self.df and the dropdown stay as they
\* were, so that the user can try again.
C16_ErrorSurfaced ==
    [][(event'.handler = "preprocess_data" /\ LoadWillFail) =>
            /\ event'.dialog.icon \in {"warning", "critical"}
            /\ app' = "running"
            /\ self_df' = self_df
            /\ items' = items]_vars

\* C17: no chart routine is called while self.df is None: a view handler
\* pressed then shows a warning only, calls nothing and changes nothing.
C17_NoPlotWithoutData ==
    [][/\ event'.plot.fn # "none" => self_df # NoFrame
       /\ (event'.handler \in ViewHandlers /\ self_df = NoFrame) =>
              /\ event'.dialog.icon = "warning"
              /\ event'.plot = NoPlot
              /\ event'.raised = "none"
              /\ UNCHANGED <<file_path, self_df, returned_df, items, current,
                             continents, years, page, app>>]_vars

C17_Witness ==
    /\ self_df = NoFrame
    /\ file_path # NoAttribute
    /\ event.handler = "view_snapshot"
    /\ event.dialog.icon = "warning"
    /\ event.plot = NoPlot

\* C18: self.df becomes a table only in preprocess_data, after load_csv stored
\* a chosen file; preprocess_data with no file chosen warns and leaves
\* self.df None; the path changes only to a file chosen in load_csv, and a
\* cancelled dialog leaves it as it was.
C18_LoadPreprocessView ==
    [][/\ (self_df = NoFrame /\ self_df' # NoFrame) =>
              /\ event'.handler = "preprocess_data"
              /\ file_path # NoAttribute
       /\ (event'.handler = "preprocess_data" /\ file_path = NoAttribute) =>
              /\ event'.dialog = Warning("Please load a file first.")
              /\ self_df = NoFrame
              /\ self_df' = NoFrame
       /\ file_path' # file_path =>
              /\ event'.handler = "load_csv"
              /\ event'.input # ""
              /\ file_path' = event'.input
       /\ (event'.handler = "load_csv" /\ event'.input = "") =>
              file_path' = file_path]_vars

C18_Witness ==
    /\ self_df # NoFrame
    /\ event.handler = "preprocess_data"
    /\ event.raised = "none"
    /\ file_path \in FileNames

\* Where Python's sorted() puts the name.
Rank(n) == CHOOSE k \in DOMAIN NameOrder : NameOrder[k] = n

\* The locations of self.df that belong in the dropdown.
CountryNames ==
    {Cell(self_df, i, "location").txt :
        i \in {j \in DOMAIN self_df.rows :
                 /\ ThreeChars(Cell(self_df, j, "iso_code"))
                 /\ IsTxt(Cell(self_df, j, "location"))}}

\* C19: after a preprocess_data that succeeded the dropdown holds the
\* placeholder first and then the locations of the rows of the new table with
\* a three-character code, each once, in ascending order, and nothing of the
\* dataset before; plot_country_selected with the placeholder selected warns
\* and plots nothing.
C19_Dropdown ==
    /\ (event.handler = "preprocess_data" /\ event.dialog.icon = "information") =>
          /\ items[1] = Placeholder
          /\ {items[k] : k \in 2..Len(items)} = CountryNames
          /\ Len(items) = 1 + Cardinality(CountryNames)
          /\ \A k \in 2..(Len(items) - 1) : Rank(items[k]) < Rank(items[k + 1])
    /\ (event.handler = "plot_country_selected" /\ currentText = Placeholder) =>
          /\ event.plot = NoPlot
          /\ event.dialog.icon = "warning"

C19_Witness ==
    /\ event.handler = "preprocess_data"
    /\ event.dialog.icon = "information"
    /\ file_path = "owid-covid-data.csv"
    /\ items = <<Placeholder, "Canada", "India">>

\* C20: plot_continent_choropleths calls plot_choropleth_maps_by_continent
\* exactly when self.df is a table and at least one continent and one year
\* range are checked, passing the checked continents and the checked year
\* ranges; otherwise it warns and draws nothing.
C20_ChoroplethGuard ==
    /\ event.plot.fn = "plot_choropleth_maps_by_continent" =>
          event.handler = "plot_continent_choropleths"
    /\ event.handler = "plot_continent_choropleths" =>
          IF self_df # NoFrame /\ continents # {} /\ years # {}
          THEN /\ event.plot.fn = "plot_choropleth_maps_by_continent"
               /\ Len(event.plot.args[1]) = Cardinality(continents)
               /\ {event.plot.args[1][k] : k \in DOMAIN event.plot.args[1]} = continents
               /\ Len(event.plot.args[2]) = Cardinality(years)
               /\ {event.plot.args[2][k] : k \in DOMAIN event.plot.args[2]} = years
          ELSE /\ event.plot = NoPlot
               /\ event.dialog.icon = "warning"

C20_Witness ==
    /\ event.handler = "plot_continent_choropleths"
    /\ event.plot.fn = "plot_choropleth_maps_by_continent"
    /\ Cardinality(continents) = 2
    /\ years = {"2021-2022"}
    /\ event.plot.used # << >>

-----------------------------------------------------------------------------
(* The chart routines called from a script, as main.py calls them: the file is
   loaded and cleaned once, then routines are called on the returned table.
   An exception of the loader or of a routine ends the script. *)

\* The countries of the generated files, in name order, with their codes and
\* continents.
CountryOrder ==
    <<"Argentina", "Brazil", "Canada", "Chile", "Egypt", "France",
      "Ghana", "India", "Japan", "Kenya", "Mexico", "Peru">>

CodeOf(location) ==
    CASE location = "Argentina" -> "ARG" [] location = "Brazil" -> "BRA"
      [] location = "Canada" -> "CAN"    [] location = "Chile" -> "CHL"
      [] location = "Egypt" -> "EGY"     [] location = "France" -> "FRA"
      [] location = "Ghana" -> "GHA"     [] location = "India" -> "IND"
      [] location = "Japan" -> "JPN"     [] location = "Kenya" -> "KEN"
      [] location = "Mexico" -> "MEX"    [] location = "Peru" -> "PER"

ContinentOf(location) ==
    CASE location \in {"Egypt", "Ghana", "Kenya"} -> "Africa"
      [] location \in {"India", "Japan"} -> "Asia"
      [] location = "France" -> "Europe"
      [] location \in {"Canada", "Mexico"} -> "North America"
      [] OTHER -> "South America"

\* One record of a generated file; the metrics not named keep one value.
ChartRecord(location, continent, date, cases, deaths, vaccinated, fully) ==
    Record(Txt(CodeOf(location)), continent, Txt(location), Txt(date),
           <<cases, deaths, Num(1), Num(0), Num(1), Num(50),
             vaccinated, fully, Num(1)>>)

\* The files of at most MaxRows records drawn from recs.
FilesOver(recs) ==
    { [exists |-> TRUE, header |-> DashboardHeader, records |-> rs] :
        rs \in UNION { [1..n -> recs] : n \in 0..MaxRows } }

\* Files for the maps: three countries of three continents, dates on both
\* sides of the boundary between two year ranges, two pairs of totals.
ChoroplethFile(csv) ==
    csv \in FilesOver(
        { ChartRecord(l, Txt(ContinentOf(l)), d, Num(m[1]), Num(m[2]), Num(3), Num(1)) :
            l \in {"India", "France", "Canada"},
            d \in {"2020-12-31", "2021-01-01", "2021-12-31"},
            m \in {<<5, 1>>, <<9, 2>>} })

\* Files for the continent chart: rows with and without a continent, with
\* and without totals, on two dates.
ContinentFile(csv) ==
    csv \in FilesOver(
        { ChartRecord(l, c, d, m[1], m[2], Num(3), Num(1)) :
            l \in {"India"},
            c \in {Txt("Asia"), Txt("Europe"), NA},
            d \in {"2021-03-01", "2021-03-02"},
            m \in {<<Num(5), Num(2)>>, <<NA, Num(0)>>} })

\* Files for the vaccination chart: each of the two values reported or not,
\* on two dates.
VaccinationFile(csv) ==
    csv \in FilesOver(
        { ChartRecord("India", Txt("Asia"), d, Num(5), Num(2), pv, pfv) :
            d \in {"2021-03-01", "2021-03-02"},
            pv \in {Num(3), NA},
            pfv \in {Num(1), NA} })

\* Files for the top-ten charts: one row for each of the first n countries,
\* at most MaxLocations of them, the country at position low (if any) with
\* the smallest total and the others with totals that repeat, and possibly a
\* second row for the first country.  total_deaths runs against total_cases.
MaxLocations == 11

TopTenFile(csv) ==
    \E n \in 0..MaxLocations, low \in 0..MaxLocations, shift \in {0, 1},
       second \in {"none", "higher", "lower"} :
        /\ n <= Len(CountryOrder)
        /\ low <= n
        /\ second # "none" => n > 0
        /\ LET Cases(k) == IF k = low THEN 1 ELSE 2 + ((k + shift) % 3)
               Row(k, cases) ==
                   ChartRecord(CountryOrder[k], Txt(ContinentOf(CountryOrder[k])),
                               "2021-03-01", Num(cases), Num(8 - cases), Num(3), Num(1))
           IN  csv = [exists |-> TRUE, header |-> DashboardHeader,
                      records |-> [k \in 1..n |-> Row(k, Cases(k))]
                          \o (IF second = "higher" THEN <<Row(1, 7)>>
                              ELSE IF second = "lower" THEN <<Row(1, 0)>>
                              ELSE << >>)]

ChartInit ==
    /\ Constructed
    /\ \/ ChoroplethFile(src)
       \/ ContinentFile(src)
       \/ VaccinationFile(src)
       \/ TopTenFile(src)
    /\ pc = 1
    /\ df = NoFrame
    /\ raised = "none"
    /\ result = NoFrame

\* main.py line 20: df = load_and_clean_data(...).
MainLoad ==
    /\ raised = "none"
    /\ pc = 1
    /\ LET o == load_and_clean_data(src)
       IN  /\ result' = o.df
           /\ raised' = o.error
    /\ pc' = 2
    /\ UNCHANGED <<src, df>>
    /\ UNCHANGED gui_vars

\* A routine was called on the table with outcome o.
Called(fn, args, o) ==
    /\ raised = "none"
    /\ pc = 2
    /\ result' = o.shared
    /\ raised' = o.error
    /\ event' = [handler |-> "main", input |-> "", dialog |-> NoDialog,
                 plot |-> [fn |-> fn, args |-> args, error |-> o.error,
                           used |-> o.used, data |-> o.data, printed |-> o.printed],
                 raised |-> o.error]
    /\ UNCHANGED <<src, pc, df>>
    /\ UNCHANGED <<file_path, self_df, returned_df, items, current, continents,
                   years, page, app>>

\* main.py lines 43-47.
MainChoropleth ==
    \E selected_continents \in {<<"Asia">>, <<"Asia", "Europe">>},
       selected_years \in {<<"2020-2021">>, <<"2021-2022">>,
                           <<"2020-2021", "2021-2022">>, <<"2022-2023">>} :
        Called("plot_choropleth_maps_by_continent",
               <<selected_continents, selected_years>>,
               plot_choropleth_maps_by_continent(result, selected_continents,
                                                 selected_years))

\* main.py line 33.
MainContinent ==
    Called("plot_continent_cases_deaths", << >>, plot_continent_cases_deaths(result))

\* main.py line 37.
MainVaccination ==
    Called("plot_global_vaccination_progress", << >>,
           plot_global_vaccination_progress(result))

\* main.py line 25.
MainTopCases ==
    \E ties \in TieOrders :
        Called("plot_top10_total_cases", << >>, plot_top10_total_cases(result, ties))

\* main.py line 26.
MainTopDeaths ==
    \E ties \in TieOrders :
        Called("plot_top10_total_deaths", << >>, plot_top10_total_deaths(result, ties))

ChartNext ==
    \/ MainLoad
    \/ MainChoropleth
    \/ MainContinent
    \/ MainVaccination
    \/ MainTopCases
    \/ MainTopDeaths

ChartSpec == ChartInit /\ [][ChartNext]_vars

-----------------------------------------------------------------------------
(* Claims on the chart routines *)

\* The last call was a call of fn that returned.
CallReturned(fn) ==
    /\ event.handler = "main"
    /\ event.plot.fn = fn
    /\ event.plot.error = "none"

\* The date lies in the range of the label, its start included and its end
\* excluded.
HalfOpen(c, label) ==
    /\ IsDate(c)
    /\ year_filters(label)[1] <= c.date
    /\ c.date < year_filters(label)[2]

\* Row i of the table is dated in one of the year ranges the call was given.
InSomeRange(i) ==
    \E k \in DOMAIN event.plot.args[2] :
        HalfOpen(Cell(result, i, "date"), event.plot.args[2][k])

\* Row i of the table is of a continent the call was given.
InSomeContinent(i) ==
    /\ IsTxt(Cell(result, i, "continent"))
    /\ InList(Cell(result, i, "continent").txt, event.plot.args[1])

\* The rows of the table in the selected continents and year ranges.
SelectedRows == {i \in DOMAIN result.rows : InSomeContinent(i) /\ InSomeRange(i)}

\* C21: every location with a row in the selected continents and year ranges
\* is mapped exactly once, with the total_cases and total_deaths of a row of
\* its greatest date among those rows, and no other location is mapped.
C21_LatestRowPerLocation ==
    CallReturned("plot_choropleth_maps_by_continent") =>
        LET data == event.plot.data
        IN  /\ \A i \in SelectedRows :
                 /\ Cardinality({k \in DOMAIN data :
                        Txt(data[k].location) = Cell(result, i, "location")}) = 1
                 /\ \E j \in SelectedRows, k \in DOMAIN data :
                        /\ Cell(result, j, "location") = Cell(result, i, "location")
                        /\ \A h \in SelectedRows :
                               Cell(result, h, "location") = Cell(result, i, "location")
                                   => Cell(result, h, "date").date <= Cell(result, j, "date").date
                        /\ Txt(data[k].location) = Cell(result, j, "location")
                        /\ data[k].total_cases = Cell(result, j, "total_cases")
                        /\ data[k].total_deaths = Cell(result, j, "total_deaths")
            /\ \A k \in DOMAIN data :
                   \E i \in SelectedRows : Txt(data[k].location) = Cell(result, i, "location")

\* A location with two selected rows of different dates and totals was
\* mapped, beside a row that was not selected.
C21_Witness ==
    /\ CallReturned("plot_choropleth_maps_by_continent")
    /\ Len(event.plot.data) = 1
    /\ \E i, j \in SelectedRows :
          /\ Cell(result, i, "location") = Cell(result, j, "location")
          /\ Cell(result, i, "date").date < Cell(result, j, "date").date
          /\ Cell(result, i, "total_cases") # Cell(result, j, "total_cases")
          /\ event.plot.data[1].total_cases = Cell(result, j, "total_cases")

\* C22: a row is selected exactly when its date lies in the half-open range
\* of a selected label, a row on a boundary between two selected ranges is
\* selected once, and when no row lies in a selected range the routine
\* reports that there is no data and draws no map.
C22_HalfOpenRanges ==
    CallReturned("plot_choropleth_maps_by_continent") =>
        LET used == event.plot.used
            positions == YearPositions(result, event.plot.args[2])
        IN  /\ \A i \in DOMAIN result.rows :
                   InList(i, positions) <=> InSomeRange(i)
            /\ \A k, n \in DOMAIN positions : positions[k] = positions[n] => k = n
            /\ \A i \in DOMAIN result.rows :
                   InSomeContinent(i) =>
                       (InList(result.index[i], used) <=> InSomeRange(i))
            /\ \A k, n \in DOMAIN used : used[k] = used[n] => k = n
            /\ (event.plot.printed = "No data for selected year range(s).")
                   <=> ~\E i \in DOMAIN result.rows : InSomeRange(i)
            /\ event.plot.printed # "" => event.plot.data = << >>

\* Both ranges that meet on 2021-01-01 were selected, and of a row of the
\* last day of 2020 and a row of the first day of 2021 each was used once.
C22_Witness ==
    /\ CallReturned("plot_choropleth_maps_by_continent")
    /\ event.plot.args[2] = <<"2020-2021", "2021-2022">>
    /\ Len(event.plot.used) = 2
    /\ \E i, j \in SelectedRows :
          /\ Cell(result, i, "date") = Date(20201231)
          /\ Cell(result, j, "date") = Date(20210101)
          /\ InList(result.index[j], event.plot.used)

\* The rows of the table with a continent and a total above zero.
ValidRows ==
    {i \in DOMAIN result.rows :
        /\ ~IsNA(Cell(result, i, "continent"))
        /\ IsDate(Cell(result, i, "date"))
        /\ \/ Positive(Cell(result, i, "total_cases"))
           \/ Positive(Cell(result, i, "total_deaths"))}

\* Those of the latest date any of them has.
LatestValidRows ==
    {i \in ValidRows :
        \A j \in ValidRows : Cell(result, j, "date").date <= Cell(result, i, "date").date}

\* The sum of column c over the rows S of the table.
RECURSIVE Total(_, _)
Total(S, c) ==
    IF S = {} THEN 0
    ELSE LET i == CHOOSE x \in S : TRUE
         IN  Cell(result, i, c).num + Total(S \ {i}, c)

\* C23: the continents plotted are those of the rows, of the latest date on
\* which a row with a continent has total_cases or total_deaths above zero,
\* that have a continent and such a total; each is plotted once with the sums
\* of total_cases and total_deaths over exactly those of its rows.
C23_ContinentTotals ==
    CallReturned("plot_continent_cases_deaths") =>
        LET data == event.plot.data
        IN  /\ \A i \in LatestValidRows :
                 LET same == {j \in LatestValidRows :
                                 Cell(result, j, "continent") = Cell(result, i, "continent")}
                 IN  /\ Cardinality({k \in DOMAIN data :
                            data[k].continent = Cell(result, i, "continent")}) = 1
                     /\ \E k \in DOMAIN data :
                            /\ data[k].continent = Cell(result, i, "continent")
                            /\ data[k].total_cases = Num(Total(same, "total_cases"))
                            /\ data[k].total_deaths = Num(Total(same, "total_deaths"))
            /\ \A k \in DOMAIN data :
                   \E i \in LatestValidRows : data[k].continent = Cell(result, i, "continent")

\* A continent was plotted from a row of the earlier date, because the row of
\* the later date has a continent and no total above zero.
C23_Witness ==
    /\ CallReturned("plot_continent_cases_deaths")
    /\ Len(event.plot.data) = 1
    /\ event.plot.data[1].total_cases = Num(5)
    /\ \E i \in LatestValidRows, j \in DOMAIN result.rows :
          /\ ~IsNA(Cell(result, j, "continent"))
          /\ j \notin ValidRows
          /\ Cell(result, i, "date").date < Cell(result, j, "date").date

\* The field of column c in record r of the file read.
SourceField(r, c) ==
    src.records[r][CHOOSE k \in DOMAIN src.header : src.header[k] = c]

\* The file read reports a vaccination value on the date.
ReportedOn(date) ==
    \E r \in DOMAIN src.records :
        /\ IsTxt(SourceField(r, "date"))
        /\ Parseable(SourceField(r, "date").txt)
        /\ Date(ParseDate(SourceField(r, "date").txt)) = date
        /\ \/ ~IsNA(SourceField(r, "people_vaccinated"))
           \/ ~IsNA(SourceField(r, "people_fully_vaccinated"))

\* C24: after load_and_clean_data, plot_global_vaccination_progress plots
\* only dates on which a row of the file read has a people_vaccinated or a
\* people_fully_vaccinated value.
C24_OnlyReportedDates ==
    CallReturned("plot_global_vaccination_progress") =>
        \A k \in DOMAIN event.plot.data : ReportedOn(event.plot.data[k].date)

\* The metric of the top-ten routine last called.
TopMetric ==
    IF event.plot.fn = "plot_top10_total_cases" THEN "total_cases" ELSE "total_deaths"

\* The rows of the table with a three-character code and a location, and
\* their locations.
CountryRows ==
    {i \in DOMAIN result.rows :
        /\ ThreeChars(Cell(result, i, "iso_code"))
        /\ IsTxt(Cell(result, i, "location"))}

Locations == {Cell(result, i, "location").txt : i \in CountryRows}

\* The greatest value of the metric over the country rows of the location.
MaxOver(location, metric) ==
    LET values == {Cell(result, i, metric).num :
                      i \in {j \in CountryRows : Cell(result, j, "location").txt = location}}
    IN  CHOOSE v \in values : \A w \in values : w <= v

\* C25: the top-ten routines plot at most 10 locations, all of them when
\* there are fewer than 10, each once with the maximum of the metric over its
\* rows with a three-character code, in descending order of that maximum, and
\* no location left out has a greater maximum than a plotted one.
C25_TopTen ==
    (CallReturned("plot_top10_total_cases") \/ CallReturned("plot_top10_total_deaths")) =>
        LET data == event.plot.data
            plotted == {data[k].location : k \in DOMAIN data}
        IN  /\ Len(data) = IF Cardinality(Locations) < 10 THEN Cardinality(Locations) ELSE 10
            /\ plotted \subseteq Locations
            /\ \A k, n \in DOMAIN data : data[k].location = data[n].location => k = n
            /\ \A k \in DOMAIN data :
                   data[k].value = Num(MaxOver(data[k].location, TopMetric))
            /\ \A k, n \in DOMAIN data : k < n => data[k].value.num >= data[n].value.num
            /\ \A l \in Locations \ plotted :
                   \A k \in DOMAIN data : MaxOver(l, TopMetric) <= data[k].value.num

\* Of eleven locations ten were plotted, one of them with two rows whose
\* greater value is not in its last row, and the one left out has a smaller
\* maximum than each of them.
C25_Witness ==
    /\ CallReturned("plot_top10_total_cases")
    /\ Cardinality(Locations) = 11
    /\ Len(event.plot.data) = 10
    /\ \E i, j \in CountryRows :
          /\ i < j
          /\ Cell(result, i, "location") = Cell(result, j, "location")
          /\ Cell(result, i, "total_cases").num > Cell(result, j, "total_cases").num
          /\ \E k \in DOMAIN event.plot.data :
                /\ Txt(event.plot.data[k].location) = Cell(result, i, "location")
                /\ event.plot.data[k].value = Cell(result, i, "total_cases")
    /\ \E l \in Locations :
          \A k \in DOMAIN event.plot.data :
              /\ event.plot.data[k].location # l
              /\ MaxOver(l, "total_cases") < event.plot.data[k].value.num

=============================================================================
